---- MODULE Spec2Model ----
(***************************************************************************)
(* A model of io_scene_ase's geometry builder (builder.py, build_ase):     *)
(* the pass over the source objects that merges non-collision meshes into  *)
(* one main geometry object, gives every collision mesh its own object,    *)
(* validates collision meshes and material slots, and fills the faces,     *)
(* normals, texture vertices, texture faces and vertex colors; and of the  *)
(* operators of exporter.py that call it: the export of the selection, the *)
(* export of a collection, and the material mapping list of the latter.    *)
(*                                                                         *)
(* Indices stored in the document are 0-based, as in the Python code; TLA+ *)
(* sequences are 1-based, so a stored index i designates element i + 1.    *)
(***************************************************************************)
EXTENDS Integers, Sequences, FiniteSets, TLC

VARIABLES
    objects,                \* build_ase's argument: the ordered source objects
    options,                \* build_ase's argument: the ASEBuildOptions
    pc,                     \* the control position, "start" | "loop" | "returned" | "raised" in build_ase
    mesh_objects,           \* builder.py:51, the (obj, asset_instance) pairs
    object_index,           \* builder.py:57, the number of pairs already processed
    ase,                    \* builder.py:48, the document being built
    main_geometry_object,   \* builder.py:50, 0 is None, else a 1-based position in ase.geometry_objects
    should_invert_normals,  \* builder.py:125-127, as the last iteration that got there left it
    loop_triangle_index_order,  \* builder.py:129, likewise (<<>> before the first)
    exception,              \* the exception build_ase raised, NoException before
    operator,               \* the export operator that calls build_ase (NoOperator: a direct call)
    result,                 \* what execute returned, or the exception that left it ("" before)
    reports,                \* exporter.py, the self.report calls so far
    writes                  \* exporter.py:377 and 532, the ASEWriter().write calls so far

operator_vars == <<operator, result, reports, writes>>

vars == <<objects, options, pc, mesh_objects, object_index, ase, main_geometry_object,
          should_invert_normals, loop_triangle_index_order, exception, operator, result,
          reports, writes>>

\* builder.py:11
SMOOTHING_GROUP_MAX == 32

\* The longest sequence of source objects handed to build_ase.
MaxObjects == 3

-----------------------------------------------------------------------------
(* Sequences and vectors                                                   *)

RECURSIVE Concat(_)
Concat(ss) == IF ss = <<>> THEN <<>> ELSE Head(ss) \o Concat(Tail(ss))

RECURSIVE SumSeq(_)
SumSeq(s) == IF s = <<>> THEN 0 ELSE Head(s) + SumSeq(Tail(s))

Range(s) == {s[i] : i \in DOMAIN s}

Min(S) == CHOOSE x \in S : \A y \in S : x <= y

\* sorted(list(S)) for a finite set of integers
RECURSIVE Sorted(_)
Sorted(S) == IF S = {} THEN <<>> ELSE <<Min(S)>> \o Sorted(S \ {Min(S)})

\* list.index(x): the 0-based position of the first occurrence (the caller checks membership)
ListIndex(s, x) == Min({i \in DOMAIN s : s[i] = x}) - 1

\* -Vector(v)
Negated(v) == [i \in DOMAIN v |-> 0 - v[i]]

(* A 4x4 matrix is modelled by its diagonal scale and its translation, the  *)
(* affine maps x |-> scale * x + loc; they are closed under the products    *)
(* the builder forms.                                                       *)
MatMul(A, B) ==
    [scale |-> [i \in 1..3 |-> A.scale[i] * B.scale[i]],
     loc   |-> [i \in 1..3 |-> A.scale[i] * B.loc[i] + A.loc[i]]]

MatApply(A, v) == [i \in 1..3 |-> A.scale[i] * v[i] + A.loc[i]]

Identity == [scale |-> <<1, 1, 1>>, loc |-> <<0, 0, 0>>]

Translation(v) == [scale |-> <<1, 1, 1>>, loc |-> v]

\* Matrix.Rotation(math.pi, 4, 'Z'): (x, y, z) |-> (-x, -y, z)
RotationPiZ == [scale |-> <<0 - 1, 0 - 1, 1>>, loc |-> <<0, 0, 0>>]

Abs(x) == IF x < 0 THEN 0 - x ELSE x

Determinant(A) == A.scale[1] * A.scale[2] * A.scale[3]

(* The scale of Matrix.decompose(): the lengths of the axes, all of them    *)
(* negated when the matrix flips orientation (negative determinant).        *)
DecomposeScale(A) ==
    IF Determinant(A) < 0
    THEN [i \in 1..3 |-> 0 - Abs(A.scale[i])]
    ELSE [i \in 1..3 |-> Abs(A.scale[i])]

-----------------------------------------------------------------------------
(* The source objects and the options the model draws its inputs from.     *)
(* Objects are handles, as in bpy: the state holds their names and Scene   *)
(* maps a name to the object.                                              *)
(* A source object carries what build_ase reads of a bpy Object: its name, *)
(* type, instance collection, matrices, its mesh datablock (data) and the  *)
(* mesh the depsgraph evaluates it to (evaluated).  A mesh datablock       *)
(* carries vertices (co), loops (vertex_index, 0-based), loop_triangles,   *)
(* uv_layers (one (u, v) per loop), color_attributes, material slots       *)
(* ("None" is an empty slot), the groups calc_smooth_groups gives each     *)
(* polygon, and the edges with bmesh's is_manifold and is_convex.          *)

None == "None"

LoopTriangle(loops, material_index, polygon_index, tag) ==
    [loops          |-> loops,
     material_index |-> material_index,
     polygon_index  |-> polygon_index,
     normal         |-> <<0, 0, tag>>,
     split_normals  |-> <<(<<tag, 1, 0>>), (<<tag, 2, 0>>), (<<tag, 3, 0>>)>>]

UVLayerData(tag, layer, nloops) == [l \in 1..nloops |-> [uv |-> <<100 * tag + 10 * layer + l, layer>>]]

ColorAttribute(name, domain, tag, n) ==
    [name |-> name, domain |-> domain, data |-> [l \in 1..n |-> [color |-> <<tag, l, 7, 1>>]]]

GoodEdge == [is_manifold |-> TRUE, is_convex |-> TRUE]
OpenEdge == [is_manifold |-> FALSE, is_convex |-> TRUE]
DentEdge == [is_manifold |-> TRUE, is_convex |-> FALSE]

\* One quad polygon: 4 vertices, 4 loops, 2 loop triangles sharing loops 0 and 2.
QuadMesh(tag, materials, mat0, mat1, group, nuv, colors, active) ==
    [vertices          |-> [i \in 1..4 |-> <<tag, i, 1>>],
     loops             |-> <<[vertex_index |-> 1], [vertex_index |-> 2], [vertex_index |-> 3], [vertex_index |-> 0]>>,
     loop_triangles    |-> <<LoopTriangle(<<0, 1, 2>>, mat0, 0, 10 * tag + 1),
                             LoopTriangle(<<0, 2, 3>>, mat1, 0, 10 * tag + 2)>>,
     uv_layers         |-> [j \in 1..nuv |-> [data |-> UVLayerData(tag, j, 4)]],
     color_attributes  |-> colors,
     active_color_name |-> active,
     materials         |-> materials,
     poly_groups       |-> <<group>>,
     edges             |-> <<GoodEdge, GoodEdge, GoodEdge>>]

\* One triangle polygon and a loose vertex: 4 vertices, 3 loops, 1 loop triangle.
TriMesh(tag, materials, mat0, group, nuv, colors, active) ==
    [vertices          |-> [i \in 1..4 |-> <<tag, i, 1>>],
     loops             |-> <<[vertex_index |-> 3], [vertex_index |-> 0], [vertex_index |-> 2]>>,
     loop_triangles    |-> <<LoopTriangle(<<0, 1, 2>>, mat0, 0, 10 * tag + 1)>>,
     uv_layers         |-> [j \in 1..nuv |-> [data |-> UVLayerData(tag, j, 3)]],
     color_attributes  |-> colors,
     active_color_name |-> active,
     materials         |-> materials,
     poly_groups       |-> <<group>>,
     edges             |-> <<GoodEdge, GoodEdge>>]

Matrix(scale, loc) == [scale |-> scale, loc |-> loc]

MeshObj(name, matrix_world, data) ==
    [name |-> name, type |-> "MESH", has_instance_collection |-> FALSE,
     all_objects |-> <<>>, instance_offset |-> <<0, 0, 0>>,
     matrix_world |-> matrix_world, matrix_local |-> matrix_world,
     data |-> data, evaluated |-> data]

\* An object that is no mesh: without an instance collection, or instancing one.
EmptyObj(name) ==
    [name |-> name, type |-> "EMPTY", has_instance_collection |-> FALSE,
     all_objects |-> <<>>, instance_offset |-> <<0, 0, 0>>,
     matrix_world |-> Identity, matrix_local |-> Identity,
     data |-> TriMesh(0, <<>>, 0, 1, 0, <<>>, ""), evaluated |-> TriMesh(0, <<>>, 0, 1, 0, <<>>, "")]

InstancerObj(name, matrix_world, all_objects, instance_offset) ==
    [EmptyObj(name) EXCEPT !.has_instance_collection = TRUE, !.all_objects = all_objects,
                           !.instance_offset = instance_offset, !.matrix_world = matrix_world]

Col(tag, n) == <<ColorAttribute("Col", "CORNER", tag, n)>>

Body  == MeshObj("body", Identity,
                 QuadMesh(1, <<"M1", "M2">>, 0, 1, 3, 1, Col(1, 4), "Col"))
\* a mirrored mesh (one negative axis) whose modifiers add a second triangle
Wheel == [MeshObj("wheel", Matrix(<<0 - 1, 1, 1>>, <<5, 0, 0>>),
                  TriMesh(2, <<"M2">>, 0, 35, 2, <<>>, ""))
             EXCEPT !.evaluated = QuadMesh(2, <<"M2">>, 0, 0, 35, 2, <<>>, "")]
Prop  == MeshObj("prop", Matrix(<<0 - 1, 0 - 1, 1>>, <<0, 2, 0>>),
                 TriMesh(3, <<>>, 0, 1, 1, Col(3, 3), "Col"))
Box   == MeshObj("MCDCX_box", Identity,
                 QuadMesh(4, <<"M1">>, 0, 0, 1, 1, <<>>, ""))
Hull  == MeshObj("MCDCX_hull", Matrix(<<0 - 1, 0 - 1, 0 - 1>>, <<0, 0, 3>>),
                 TriMesh(5, <<>>, 0, 2, 0, Col(5, 3), "Col"))
Lamp  == EmptyObj("lamp")
Bolt  == MeshObj("bolt", Matrix(<<1, 1, 0 - 1>>, <<0, 0, 1>>),
                 TriMesh(6, <<"M1">>, 0, 33, 1, <<>>, ""))
Inst  == InstancerObj("inst", Matrix(<<1, 0 - 1, 1>>, <<0, 4, 0>>), <<"lamp", "bolt">>, <<1, 0, 0>>)

GeometryCatalogue == {"body", "wheel", "prop", "MCDCX_box", "MCDCX_hull", "lamp", "inst"}

Hole  == MeshObj("hole", Identity, TriMesh(7, <<"M1", None>>, 0, 1, 1, <<>>, ""))
Stray == MeshObj("stray", Identity, QuadMesh(8, <<"M1">>, 0, 2, 1, 1, <<>>, ""))
Alien == MeshObj("alien", Identity, TriMesh(9, <<"M3">>, 0, 1, 1, <<>>, ""))
\* valid collision meshes: with an empty slot, and with faces on its second slot
Crate == MeshObj("MCDCX_crate", Identity, TriMesh(10, <<None>>, 0, 1, 0, <<>>, ""))
Ramp  == MeshObj("MCDCX_ramp", Identity, QuadMesh(11, <<"M1", "M2">>, 0, 1, 1, 0, <<>>, ""))
\* invalid collision meshes: the second edge is open, or reflex
Open  == MeshObj("MCDCX_open", Identity,
                 [TriMesh(12, <<"M1">>, 0, 1, 0, <<>>, "") EXCEPT !.edges = <<GoodEdge, OpenEdge, DentEdge>>])
Dent  == MeshObj("MCDCX_dent", Identity,
                 [TriMesh(13, <<"M1">>, 0, 1, 0, <<>>, "") EXCEPT !.edges = <<GoodEdge, DentEdge, OpenEdge>>])

ErrorCatalogue == {"body", "prop", "hole", "stray", "alien", "MCDCX_crate", "MCDCX_ramp",
                   "MCDCX_open", "MCDCX_dent"}

NoInstance == EmptyObj("")

AllObjects == {Body, Wheel, Prop, Box, Hull, Lamp, Bolt, Inst, Hole, Stray, Alien, Crate, Ramp,
               Open, Dent, NoInstance}

Scene == [name \in {o.name : o \in AllObjects} |-> CHOOSE o \in AllObjects : o.name = name]

\* ASEBuildOptions (builder.py:17-26) with the fields the callers set
BuildOptions(materials, invert, export_colors, has_colors, mode, attribute, eval_state) ==
    [object_eval_state           |-> eval_state,
     materials                   |-> materials,
     transform                   |-> Identity,
     should_export_vertex_colors |-> export_colors,
     vertex_color_mode           |-> mode,
     has_vertex_colors           |-> has_colors,
     vertex_color_attribute      |-> attribute,
     should_invert_normals       |-> invert]

ColorChoices ==
    {<<FALSE, TRUE, "ACTIVE", "">>, <<TRUE, TRUE, "ACTIVE", "">>, <<TRUE, FALSE, "ACTIVE", "">>,
     <<TRUE, TRUE, "EXPLICIT", "Col">>, <<TRUE, TRUE, "EXPLICIT", "Gone">>}

GeometryOptions ==
    {BuildOptions(<<"M1", "M2">>, invert, c[1], c[2], c[3], c[4], "EVALUATED") :
        invert \in BOOLEAN, c \in ColorChoices}
    \cup {BuildOptions(<<"M1", "M2">>, invert, TRUE, TRUE, "ACTIVE", "", "ORIGINAL") :
        invert \in BOOLEAN}

ErrorOptions ==
    {BuildOptions(materials, invert, FALSE, FALSE, "ACTIVE", "", "EVALUATED") :
        materials \in {<<>>, <<"M2", "M1">>}, invert \in BOOLEAN}

\* the sequences of at most n elements of S
SeqsUpTo(S, n) == UNION {[1..k -> S] : k \in 0..n}

-----------------------------------------------------------------------------
(* ase.py (not among the sources): the document model and the name test.   *)

CollisionNames == {"MCDCX_box", "MCDCX_hull", "MCDCX_crate", "MCDCX_ramp", "MCDCX_open", "MCDCX_dent"}

\* is_collision_name: the name matches the collision-name pattern
is_collision_name(name) == name \in CollisionNames

\* ASE()
ASE == [materials |-> <<>>, geometry_objects |-> <<>>]

\* ASEGeometryObject() once named; is_collision is derived from the name
ASEGeometryObject(name) ==
    [name                  |-> name,
     is_collision          |-> is_collision_name(name),
     vertices              |-> <<>>,
     faces                 |-> <<>>,
     face_normals          |-> <<>>,
     uv_layers             |-> <<>>,
     texture_vertex_faces  |-> <<>>,
     vertex_colors         |-> <<>>,
     vertex_offset         |-> 0,
     texture_vertex_offset |-> 0]

\* ASEUVLayer()
ASEUVLayer == [texture_vertices |-> <<>>]

-----------------------------------------------------------------------------
(* builder.py                                                              *)

\* get_object_matrix (builder.py:29-32)
get_object_matrix(obj, has_instance, asset_instance) ==
    IF has_instance
    THEN MatMul(MatMul(asset_instance.matrix_world, Translation(asset_instance.instance_offset)),
                obj.matrix_local)
    ELSE obj.matrix_world

\* get_mesh_objects (builder.py:35-44): the pairs (obj, asset_instance), by name
MeshPair(obj, has_instance, asset_instance) ==
    [obj |-> obj, has_instance |-> has_instance, asset_instance |-> asset_instance]

InstanceMeshes(obj) ==
    Concat([k \in DOMAIN Scene[obj].all_objects |->
              IF Scene[Scene[obj].all_objects[k]].type = "MESH"
              THEN <<MeshPair(Scene[obj].all_objects[k], TRUE, obj)>>
              ELSE <<>>])

get_mesh_objects(objs) ==
    Concat([k \in DOMAIN objs |->
              IF Scene[objs[k]].type = "MESH" THEN <<MeshPair(objs[k], FALSE, NoInstance.name)>>
              ELSE IF Scene[objs[k]].has_instance_collection THEN InstanceMeshes(objs[k])
              ELSE <<>>])

\* builder.py:79: the mesh goes into the main geometry object
ReusesMainOfAnyName(name, main0) == main0 # 0

ReusesMain(name, main0) == ~is_collision_name(name) /\ main0 # 0

\* builder.py:64-77: the mesh the faces are read from
MeshData(obj, opts) ==
    IF opts.object_eval_state = "ORIGINAL" THEN obj.data ELSE obj.evaluated

\* builder.py:100
VertexTransform(matrix_world) == MatMul(RotationPiZ, matrix_world)

\* builder.py:123-127
ShouldInvertNormalsIgnoringOverride(vertex_transform, opts) ==
    LET scale == DecomposeScale(vertex_transform)
        negative_scaling_axes == Cardinality({x \in 1..3 : scale[x] < 0})
    IN  negative_scaling_axes % 2 = 1

ShouldInvertNormals(vertex_transform, opts) ==
    LET scale == DecomposeScale(vertex_transform)
        negative_scaling_axes == Cardinality({x \in 1..3 : scale[x] < 0})
        odd == (negative_scaling_axes % 2 = 1)
    IN  IF opts.should_invert_normals THEN ~odd ELSE odd

\* builder.py:129
LoopTriangleIndexOrderSwappingLastTwo(inverts) ==
    IF inverts THEN <<0, 2, 1>> ELSE <<0, 1, 2>>

LoopTriangleIndexOrder(inverts) ==
    IF inverts THEN <<2, 1, 0>> ELSE <<0, 1, 2>>

\* builder.py:159
SmoothingUnclamped(raw_group) == raw_group - 1

Smoothing(raw_group) == (raw_group - 1) % SMOOTHING_GROUP_MAX

\* ASEFace(): the fields before build_ase assigns them
ASEFace == [a |-> 0, b |-> 0, c |-> 0, material_index |-> 0, smoothing |-> 0]

NoException == [type |-> "None", message |-> "", name |-> "", slot |-> 0, index |-> 0, indices |-> <<>>]

ASEBuildError(message, name) ==
    [NoException EXCEPT !.type = "ASEBuildError", !.message = message, !.name = name]

\* builder.py:92-98: the first edge that is not manifold or not convex decides
BadEdgesOfManifoldTestOnly(mesh_data) ==
    {e \in DOMAIN mesh_data.edges : ~mesh_data.edges[e].is_manifold}

BadEdges(mesh_data) ==
    {e \in DOMAIN mesh_data.edges :
        ~mesh_data.edges[e].is_manifold \/ ~mesh_data.edges[e].is_convex}

CollisionError(name, mesh_data) ==
    IF ~mesh_data.edges[Min(BadEdges(mesh_data))].is_manifold
    THEN ASEBuildError("is not manifold", name)
    ELSE ASEBuildError("is not convex", name)

\* builder.py:102-103
TransformedVertices(vertex_transform, mesh_data) ==
    [i \in DOMAIN mesh_data.vertices |-> MatApply(vertex_transform, mesh_data.vertices[i])]

\* builder.py:105-110: the slots that stop the resolution, and the error of the first
BadSlots(materials, slots) ==
    {k \in DOMAIN slots : slots[k] = None \/ slots[k] \notin Range(materials)}

SlotError(materials, slots, name) ==
    LET k == Min(BadSlots(materials, slots))
    IN  IF slots[k] = None
        THEN [ASEBuildError("material slot cannot be empty", name) EXCEPT !.slot = k]
        ELSE [NoException EXCEPT !.type = "ValueError", !.message = "is not in list", !.name = name]

\* builder.py:105-114
MaterialIndices(materials, slots, is_collision) ==
    LET resolved == IF is_collision THEN <<>>
                    ELSE [k \in DOMAIN slots |-> ListIndex(materials, slots[k])]
    IN  IF Len(resolved) = 0 THEN <<0>> ELSE resolved

\* builder.py:132
FaceMaterialIndices(mesh_data) ==
    {mesh_data.loop_triangles[t].material_index : t \in DOMAIN mesh_data.loop_triangles}

\* builder.py:135-142, for the offending index the loop meets first
MaterialIndexErrorOfFirstOnly(material_index, name, mesh_data) ==
    [ASEBuildError("material index is out of bounds", name)
        EXCEPT !.index = material_index, !.indices = <<material_index>>]

MaterialIndexError(material_index, name, mesh_data) ==
    [ASEBuildError("material index is out of bounds", name)
        EXCEPT !.index = material_index, !.indices = Sorted(FaceMaterialIndices(mesh_data))]

\* builder.py:149 and 170: the vertex of corner j (0-based) of a loop triangle
CornerVertexOneBased(vertex_offset, mesh_data, loop_triangle, j) ==
    vertex_offset + mesh_data.loops[loop_triangle.loops[j + 1] + 1].vertex_index + 1

CornerVertexWithoutOffset(vertex_offset, mesh_data, loop_triangle, j) ==
    mesh_data.loops[loop_triangle.loops[j + 1] + 1].vertex_index

CornerVertex(vertex_offset, mesh_data, loop_triangle, j) ==
    vertex_offset + mesh_data.loops[loop_triangle.loops[j + 1] + 1].vertex_index

\* builder.py:147-160
Faces(g, mesh_data, material_indices, order) ==
    [t \in DOMAIN mesh_data.loop_triangles |->
        LET loop_triangle == mesh_data.loop_triangles[t]
        IN  [ASEFace EXCEPT
                !.a = CornerVertex(g.vertex_offset, mesh_data, loop_triangle, order[1]),
                !.b = CornerVertex(g.vertex_offset, mesh_data, loop_triangle, order[2]),
                !.c = CornerVertex(g.vertex_offset, mesh_data, loop_triangle, order[3]),
                !.material_index = IF ~g.is_collision
                                   THEN material_indices[loop_triangle.material_index + 1]
                                   ELSE @,
                !.smoothing = Smoothing(mesh_data.poly_groups[loop_triangle.polygon_index + 1])]]

\* builder.py:164-175
FaceNormals(g, mesh_data, order, inverts) ==
    [t \in DOMAIN mesh_data.loop_triangles |->
        LET loop_triangle == mesh_data.loop_triangles[t]
        IN  [normal |-> loop_triangle.normal,
             vertex_normals |->
                [p \in 1..3 |->
                    [vertex_index |-> CornerVertex(g.vertex_offset, mesh_data, loop_triangle, order[p]),
                     normal |-> IF inverts
                                THEN Negated(loop_triangle.split_normals[order[p] + 1])
                                ELSE loop_triangle.split_normals[order[p] + 1]]]]]

\* builder.py:178-184
UVLayers(g, mesh_data) ==
    LET old == Len(g.uv_layers)
        new == Len(mesh_data.uv_layers)
    IN  [i \in 1..(IF new > old THEN new ELSE old) |->
            LET uv_layer == IF i > old THEN ASEUVLayer ELSE g.uv_layers[i]
            IN  IF i > new THEN uv_layer
                ELSE [uv_layer EXCEPT !.texture_vertices = @ \o
                        [l \in DOMAIN mesh_data.loops |->
                            <<mesh_data.uv_layers[i].data[l].uv[1],
                              mesh_data.uv_layers[i].data[l].uv[2], 0>>]]]

\* builder.py:187-190
TextureVertexFaces(g, mesh_data, order) ==
    [t \in DOMAIN mesh_data.loop_triangles |->
        [p \in 1..3 |-> g.texture_vertex_offset + mesh_data.loop_triangles[t].loops[order[p] + 1]]]

\* builder.py:213
NextTextureVertexOffset(g, mesh_data) == g.texture_vertex_offset + Len(mesh_data.loops)

\* builder.py:214
NextVertexOffset(g) == Len(g.vertices)

\* builder.py:193: colors are looked at at all
ExportsColors(opts) == opts.should_export_vertex_colors /\ opts.has_vertex_colors

\* builder.py:194-200
ValidColorMode(opts) == opts.vertex_color_mode \in {"ACTIVE", "EXPLICIT"}

ColorAttributeName(opts, active_color_name) ==
    IF opts.vertex_color_mode = "ACTIVE" THEN active_color_name ELSE opts.vertex_color_attribute

\* builder.py:202: color_attributes.get(name, None), as the set of its positions
ColorAttributeAt(mesh_data, name) ==
    {k \in DOMAIN mesh_data.color_attributes : mesh_data.color_attributes[k].name = name}

\* builder.py:209-210
Colors(color_attribute) ==
    [l \in DOMAIN color_attribute.data |-> SubSeq(color_attribute.data[l].color, 1, 3)]

-----------------------------------------------------------------------------
(* build_ase as a state machine: its prologue, one step per source mesh,   *)
(* and its epilogue.  A step that raises leaves the document as far as the *)
(* iteration had filled it; the caller never sees that document.           *)

\* build_ase called on its own, outside any export operator
NoOperator == [kind |-> "None"]

InitWith(catalogue, option_set) ==
    /\ objects \in SeqsUpTo(catalogue, MaxObjects)
    /\ options \in option_set
    /\ pc = "start"
    /\ mesh_objects = <<>>
    /\ object_index = 0
    /\ ase = ASE
    /\ main_geometry_object = 0
    /\ should_invert_normals = FALSE
    /\ loop_triangle_index_order = <<>>
    /\ exception = NoException
    /\ operator = NoOperator
    /\ result = ""
    /\ reports = <<>>
    /\ writes = <<>>

Init == InitWith(GeometryCatalogue, GeometryOptions)

InitErrors == InitWith(ErrorCatalogue, ErrorOptions)

\* builder.py:48-55
BuildBegin ==
    /\ pc = "start"
    /\ pc' = "loop"
    /\ mesh_objects' = get_mesh_objects(objects)
    /\ ase' = [ASE EXCEPT !.materials = options.materials]
    /\ main_geometry_object' = 0
    /\ object_index' = 0
    /\ UNCHANGED <<objects, options, should_invert_normals, loop_triangle_index_order, exception>>
    /\ UNCHANGED operator_vars

Raise(e, geometry_objects, main, inverts, order) ==
    /\ pc' = "raised"
    /\ exception' = e
    /\ ase' = [ase EXCEPT !.geometry_objects = geometry_objects]
    /\ main_geometry_object' = main
    /\ should_invert_normals' = inverts
    /\ loop_triangle_index_order' = order
    /\ UNCHANGED <<objects, options, mesh_objects, object_index>>

(* builder.py:57-214, one pass of the loop over mesh_objects, as a chain   *)
(* of stages in the order of the code. A pass leaves the exceptions it may *)
(* raise (none when it completes; one for each out of bounds material      *)
(* index, as the loop over the set may meet any of them first) and the     *)
(* values of the locals it assigned, g being the pass's geometry_object.   *)
Left(visit, raises, g, inverts, order) ==
    [raises |-> raises,
     geometry_objects |-> [visit.geometry_objects EXCEPT ![visit.index] = g],
     main |-> visit.main,
     should_invert_normals |-> inverts,
     loop_triangle_index_order |-> order]

\* builder.py:212-214
AdvanceOffsets(visit, g, inverts, order) ==
    Left(visit, {},
         [g EXCEPT !.texture_vertex_offset = NextTextureVertexOffset(g, visit.mesh_data),
                   !.vertex_offset = NextVertexOffset(g)],
         inverts, order)

\* builder.py:192-210
AppendVertexColors(visit, g, inverts, order) ==
    LET looks_at_colors == ~g.is_collision /\ ExportsColors(visit.opts)
        found == ColorAttributeAt(visit.mesh_data,
                                  ColorAttributeName(visit.opts, visit.obj.data.active_color_name))
    IN  IF looks_at_colors /\ ~ValidColorMode(visit.opts)
        THEN Left(visit, {ASEBuildError("Invalid vertex color mode", "")}, g, inverts, order)
        ELSE IF looks_at_colors /\ found # {}
        THEN IF visit.mesh_data.color_attributes[Min(found)].domain # "CORNER"
             THEN Left(visit, {ASEBuildError("must have domain of CORNER", visit.obj.name)},
                       g, inverts, order)
             ELSE AdvanceOffsets(visit,
                      [g EXCEPT !.vertex_colors =
                           @ \o Colors(visit.mesh_data.color_attributes[Min(found)])],
                      inverts, order)
        ELSE AdvanceOffsets(visit, g, inverts, order)

\* builder.py:162-190
AppendCornerChannels(visit, g, inverts, order) ==
    AppendVertexColors(visit,
        IF g.is_collision THEN g
        ELSE [g EXCEPT
                !.face_normals = @ \o FaceNormals(g, visit.mesh_data, order, inverts),
                !.uv_layers = UVLayers(g, visit.mesh_data),
                !.texture_vertex_faces = @ \o TextureVertexFaces(g, visit.mesh_data, order)],
        inverts, order)

\* builder.py:129-160
AppendFaces(visit, g, material_indices, inverts, order) ==
    LET out_of_bounds ==
            {m \in FaceMaterialIndices(visit.mesh_data) : m >= Len(material_indices)}
    IN  IF out_of_bounds # {}
        THEN Left(visit,
                  {MaterialIndexError(m, visit.obj.name, visit.mesh_data) : m \in out_of_bounds},
                  g, inverts, order)
        ELSE AppendCornerChannels(visit,
                 [g EXCEPT !.faces = @ \o Faces(g, visit.mesh_data, material_indices, order)],
                 inverts, order)

\* builder.py:123-129
DecideWinding(visit, g, material_indices, inverts) ==
    AppendFaces(visit, g, material_indices, inverts, LoopTriangleIndexOrder(inverts))

\* builder.py:105-114
ResolveMaterials(visit, g) ==
    IF ~g.is_collision /\ BadSlots(visit.materials, visit.obj.data.materials) # {}
    THEN Left(visit, {SlotError(visit.materials, visit.obj.data.materials, visit.obj.name)},
              g, visit.inverts0, visit.order0)
    ELSE DecideWinding(visit, g,
             MaterialIndices(visit.materials, visit.obj.data.materials, g.is_collision),
             ShouldInvertNormals(visit.vertex_transform, visit.opts))

\* builder.py:88-103
TestCollisionMesh(visit, g) ==
    IF g.is_collision /\ BadEdges(visit.mesh_data) # {}
    THEN Left(visit, {CollisionError(visit.obj.name, visit.mesh_data)},
              g, visit.inverts0, visit.order0)
    ELSE ResolveMaterials(visit,
             [g EXCEPT !.vertices =
                  @ \o TransformedVertices(visit.vertex_transform, visit.mesh_data)])

\* builder.py:79-86
ChooseGeometryObject(visit, doc, main0, reuse) ==
    LET index == IF reuse THEN main0 ELSE Len(doc.geometry_objects) + 1
        geometry_objects == IF reuse THEN doc.geometry_objects
                            ELSE Append(doc.geometry_objects, ASEGeometryObject(visit.obj.name))
    IN  TestCollisionMesh(
            [visit EXCEPT !.index = index,
                          !.geometry_objects = geometry_objects,
                          !.main = IF ~reuse /\ ~geometry_objects[index].is_collision
                                   THEN index ELSE main0],
            geometry_objects[index])

\* builder.py:57-77, 100
BeginVisit(doc, main0, inverts0, order0, obj, matrix_world, opts) ==
    ChooseGeometryObject(
        [obj |-> obj, mesh_data |-> MeshData(obj, opts),
         vertex_transform |-> VertexTransform(matrix_world),
         materials |-> doc.materials, opts |-> opts,
         inverts0 |-> inverts0, order0 |-> order0,
         index |-> 0, geometry_objects |-> <<>>, main |-> main0],
        doc, main0, ReusesMain(obj.name, main0))

\* builder.py:57-214: one pass of the loop over mesh_objects
Iteration(doc, main0, inverts0, order0, pair, opts) ==
    BeginVisit(doc, main0, inverts0, order0, Scene[pair.obj],
               get_object_matrix(Scene[pair.obj], pair.has_instance, Scene[pair.asset_instance]),
               opts)

BuildStep ==
    /\ pc = "loop"
    /\ object_index < Len(mesh_objects)
    /\ UNCHANGED operator_vars
    /\ \E it \in {Iteration(ase, main_geometry_object, should_invert_normals,
                             loop_triangle_index_order, mesh_objects[object_index + 1], options)} :
         IF it.raises # {}
         THEN \E e \in it.raises :
                 Raise(e, it.geometry_objects, it.main, it.should_invert_normals,
                       it.loop_triangle_index_order)
         ELSE /\ ase' = [ase EXCEPT !.geometry_objects = it.geometry_objects]
              /\ main_geometry_object' = it.main
              /\ should_invert_normals' = it.should_invert_normals
              /\ loop_triangle_index_order' = it.loop_triangle_index_order
              /\ object_index' = object_index + 1
              /\ UNCHANGED <<objects, options, pc, mesh_objects, exception>>

\* builder.py:218-226
BuildFinish ==
    /\ pc = "loop"
    /\ object_index = Len(mesh_objects)
    /\ UNCHANGED operator_vars
    /\ IF Len(ase.geometry_objects) = 0
       THEN Raise(ASEBuildError("At least one mesh object must be selected", ""),
                  ase.geometry_objects, main_geometry_object, should_invert_normals,
                  loop_triangle_index_order)
       ELSE IF main_geometry_object = 0
       THEN Raise(ASEBuildError("At least one non-collision mesh must be exported", ""),
                  ase.geometry_objects, main_geometry_object, should_invert_normals,
                  loop_triangle_index_order)
       ELSE /\ pc' = "returned"
            /\ UNCHANGED <<objects, options, mesh_objects, object_index, ase,
                           main_geometry_object, should_invert_normals,
                           loop_triangle_index_order, exception>>

Next == BuildBegin \/ BuildStep \/ BuildFinish

Spec == Init /\ [][Next]_vars

SpecErrors == InitErrors /\ [][Next]_vars

-----------------------------------------------------------------------------
(* exporter.py: the two export operators around build_ase.  The operator   *)
(* record holds the operator's properties and what it reads from the       *)
(* context: the selected objects (ASE_OT_export) or the objects of the     *)
(* collection (ASE_OT_export_collection), and the scene's export settings. *)

\* dfs.py (not among the sources): the traversal yields the objects in order
dfs_objects(objs) == objs

\* ASEWriter().write (writer.py, not among the sources): the destination takes
\* the document or rejects it (PermissionError)
WriterOutcomes == {"written", "PermissionError"}

\* exporter.py:322, 366, 496: the yielded objects that are meshes
MeshObjectsOf(objs) == SelectSeq(dfs_objects(objs), LAMBDA name : Scene[name].type = "MESH")

\* exporter.py:23-24: the list without the repetitions, in first-encounter order
RECURSIVE Unique(_)
Unique(s) ==
    IF s = <<>> THEN <<>>
    ELSE IF s[Len(s)] \in Range(SubSeq(s, 1, Len(s) - 1))
         THEN Unique(SubSeq(s, 1, Len(s) - 1))
         ELSE Append(Unique(SubSeq(s, 1, Len(s) - 1)), s[Len(s)])

\* get_unique_materials (exporter.py:15-25); an empty slot contributes None
get_unique_materials(mesh_names) ==
    Unique(Concat([k \in DOMAIN mesh_names |-> Scene[mesh_names[k]].evaluated.materials]))

\* get_vertex_color_attributes_from_objects (properties.py:71-81)
get_vertex_color_attributes_from_objects(objs) ==
    UNION {{Scene[objs[k]].data.color_attributes[c].name :
               c \in {c \in DOMAIN Scene[objs[k]].data.color_attributes :
                         Scene[objs[k]].data.color_attributes[c].domain = "CORNER"}} :
           k \in {k \in DOMAIN objs : Scene[objs[k]].type = "MESH"}}

\* properties.py:36-39
transform_source_items == {"SCENE", "CUSTOM"}

\* exporter.py:385-389
export_space_items == {"WORLD", "INSTANCE", "OBJECT"}

\* properties.py:52-55
material_mode_items == {"AUTOMATIC", "MANUAL"}

\* context.scene.ase_settings and the operator's own TransformMixin values
SceneSettings == [scale |-> 1, forward_axis |-> "X", up_axis |-> "Z"]

OperatorSettings == [scale |-> 2, forward_axis |-> "Y", up_axis |-> "Z"]

\* exporter.py:354-358 and 476-480: the cases of the match statement
TransformSourceCases == {"SCENE", "OBJECT"}

TransformSourceOf(op) ==
    IF op.transform_source = "SCENE" THEN SceneSettings ELSE OperatorSettings

\* ASEBuildOptions() (builder.py:17-26)
ASEBuildOptions == BuildOptions(None, FALSE, TRUE, FALSE, "ACTIVE", "", "EVALUATED")

\* exporter.py:360-362 and 482-484: the options with the three attributes added
WithTransformSource(opts, transform_source) ==
    [object_eval_state           |-> opts.object_eval_state,
     materials                   |-> opts.materials,
     transform                   |-> opts.transform,
     should_export_vertex_colors |-> opts.should_export_vertex_colors,
     vertex_color_mode           |-> opts.vertex_color_mode,
     has_vertex_colors           |-> opts.has_vertex_colors,
     vertex_color_attribute      |-> opts.vertex_color_attribute,
     should_invert_normals       |-> opts.should_invert_normals,
     scale                       |-> transform_source.scale,
     forward_axis                |-> transform_source.forward_axis,
     up_axis                     |-> transform_source.up_axis]

\* exporter.py:345-352
ExportOptions(op) ==
    BuildOptions([i \in DOMAIN op.material_list |-> op.material_list[i]],
                 op.should_invert_normals,
                 op.should_export_vertex_colors,
                 get_vertex_color_attributes_from_objects(op.objects) # {},
                 op.vertex_color_mode,
                 op.vertex_color_attribute,
                 op.object_eval_state)

\* exporter.py:486-492: no case for OBJECT, the transform stays the identity
ExportSpaceTransform(op) ==
    IF op.export_space = "WORLD" THEN Identity
    ELSE IF op.export_space = "INSTANCE" THEN Translation(Negated(op.instance_offset))
    ELSE ASEBuildOptions.transform

\* exporter.py:509-523: the materials named in the mapping list first, sorted by the
\* position material_names_map gives their name (the last one holding it), then the others
ManualMaterials(materials, material_names) ==
    Concat([i \in DOMAIN material_names |->
              IF /\ material_names[i] \in Range(materials)
                 /\ \A j \in (i + 1)..Len(material_names) : material_names[j] # material_names[i]
              THEN <<material_names[i]>> ELSE <<>>])
    \o SelectSeq(materials, LAMBDA material : material \notin Range(material_names))

\* self.report
Report(type, message, name) == [type |-> type, message |-> message, name |-> name]

\* exporter.py:378
SuccessReport(doc) ==
    [type           |-> "INFO",
     message        |-> "ASE exported successfully",
     name           |-> "",
     object_count   |-> Len(doc.geometry_objects),
     material_count |-> Len(doc.materials),
     face_count     |-> SumSeq([j \in DOMAIN doc.geometry_objects |-> Len(doc.geometry_objects[j].faces)]),
     vertex_count   |-> SumSeq([j \in DOMAIN doc.geometry_objects |-> Len(doc.geometry_objects[j].vertices)])]

\* exporter.py:380-382 and 527-529: what execute does with an ASEBuildError
OnBuildErrorWritingAnyway(e, doc) ==
    [result |-> "CANCELLED", reports |-> <<Report("ERROR", e.message, e.name)>>,
     writes |-> <<[ase |-> doc, outcome |-> "written"]>>]

OnBuildError(e, doc) ==
    [result |-> "CANCELLED", reports |-> <<Report("ERROR", e.message, e.name)>>, writes |-> <<>>]

\* An operator with its properties and its context
ExportOperator(kind, objs, transform_source, colors, export_space, material_mode, material_mapping) ==
    [kind                        |-> kind,
     objects                     |-> objs,
     object_eval_state           |-> "EVALUATED",
     transform_source            |-> transform_source,
     should_export_vertex_colors |-> colors[1],
     vertex_color_mode           |-> colors[2],
     vertex_color_attribute      |-> colors[3],
     should_invert_normals       |-> FALSE,
     material_list               |-> <<>>,
     export_space                |-> export_space,
     instance_offset             |-> <<1, 2, 0>>,
     material_mode               |-> material_mode,
     material_mapping            |-> material_mapping,
     material_mapping_index      |-> 0]

ExportCatalogue == {"body", "wheel", "alien", "hole", "MCDCX_dent"}

\* should_export_vertex_colors, vertex_color_mode, vertex_color_attribute of the scene
SceneColorChoices == {<<TRUE, "ACTIVE", "">>, <<FALSE, "ACTIVE", "">>, <<TRUE, "EXPLICIT", "Gone">>}

\* ASE_PG_key_value (properties.py:66-68)
ASE_PG_key_value(key, value) == [key |-> key, value |-> value]

\* the material mapping lists tried
MappingChoices ==
    {<<>>, <<ASE_PG_key_value("M2", "M2")>>,
     <<ASE_PG_key_value("M3", "M3"), ASE_PG_key_value("M1", "M1")>>}

\* exporter.py:509
MaterialNames(op) == [i \in DOMAIN op.material_mapping |-> op.material_mapping[i].key]

SelectedExports ==
    {ExportOperator("export", objs, transform_source, colors, "INSTANCE", "AUTOMATIC", <<>>) :
        objs \in SeqsUpTo(ExportCatalogue, MaxObjects),
        transform_source \in transform_source_items,
        colors \in SceneColorChoices}

CollectionExports ==
    {ExportOperator("export_collection", objs, "SCENE", <<TRUE, "ACTIVE", "">>,
                    export_space, "AUTOMATIC", <<>>) :
        objs \in SeqsUpTo(ExportCatalogue, MaxObjects), export_space \in export_space_items}
    \cup {ExportOperator("export_collection", objs, "SCENE", <<TRUE, "ACTIVE", "">>,
                         "INSTANCE", "MANUAL", material_mapping) :
        objs \in SeqsUpTo(ExportCatalogue, MaxObjects), material_mapping \in MappingChoices}
    \cup {ExportOperator("export_collection", objs, "CUSTOM", <<TRUE, "ACTIVE", "">>,
                         "INSTANCE", "AUTOMATIC", <<>>) :
        objs \in SeqsUpTo(ExportCatalogue, MaxObjects)}

InitExport ==
    /\ operator \in SelectedExports \cup CollectionExports
    /\ pc = IF operator.kind = "export" THEN "invoke" ELSE "execute"
    /\ objects = <<>>
    /\ options = ASEBuildOptions
    /\ mesh_objects = <<>>
    /\ object_index = 0
    /\ ase = ASE
    /\ main_geometry_object = 0
    /\ should_invert_normals = FALSE
    /\ loop_triangle_index_order = <<>>
    /\ exception = NoException
    /\ result = ""
    /\ reports = <<>>
    /\ writes = <<>>

\* execute ends before build_ase is called: by a return, or by an exception that leaves it
Ends(outcome, new_reports, opts) ==
    /\ pc' = "done"
    /\ result' = outcome
    /\ reports' = reports \o new_reports
    /\ options' = opts
    /\ UNCHANGED <<objects, mesh_objects, object_index, ase, main_geometry_object,
                   should_invert_normals, loop_triangle_index_order, exception, operator, writes>>

\* execute calls build_ase
CallsBuild(opts, objs) ==
    /\ pc' = "start"
    /\ options' = opts
    /\ objects' = objs
    /\ UNCHANGED <<mesh_objects, object_index, ase, main_geometry_object, should_invert_normals,
                   loop_triangle_index_order, exception, operator, result, reports, writes>>

\* ASE_OT_export.invoke (exporter.py:319-340)
ExportInvoke ==
    /\ pc = "invoke"
    /\ IF Len(MeshObjectsOf(operator.objects)) = 0
       THEN /\ Ends("CANCELLED", <<Report("ERROR", "No mesh objects selected", "")>>, options)
       ELSE /\ pc' = "execute"
            /\ operator' = [operator EXCEPT
                               !.material_list = get_unique_materials(MeshObjectsOf(operator.objects))]
            /\ UNCHANGED <<objects, options, mesh_objects, object_index, ase, main_geometry_object,
                           should_invert_normals, loop_triangle_index_order, exception, result,
                           reports, writes>>

\* ASE_OT_export.execute up to the call of build_ase (exporter.py:342-369)
ExportExecute ==
    /\ pc = "execute"
    /\ operator.kind = "export"
    /\ IF operator.transform_source \notin TransformSourceCases
       THEN Ends("UnboundLocalError", <<>>, ExportOptions(operator))
       ELSE CallsBuild(WithTransformSource(ExportOptions(operator), TransformSourceOf(operator)),
                       MeshObjectsOf(operator.objects))

\* exporter.py:473-500: the options before the materials are ordered
CollectionOptions(op) ==
    WithTransformSource(
        [ASEBuildOptions EXCEPT !.object_eval_state = op.object_eval_state,
                                !.transform = ExportSpaceTransform(op),
                                !.materials = get_unique_materials(MeshObjectsOf(op.objects))],
        TransformSourceOf(op))

\* ASE_OT_export_collection.execute up to the call of build_ase (exporter.py:470-526)
CollectionExecute ==
    /\ pc = "execute"
    /\ operator.kind = "export_collection"
    /\ IF operator.transform_source \notin TransformSourceCases
       THEN Ends("UnboundLocalError", <<>>,
                 [ASEBuildOptions EXCEPT !.object_eval_state = operator.object_eval_state])
       ELSE IF operator.material_mode # "MANUAL"
       THEN CallsBuild(CollectionOptions(operator), MeshObjectsOf(operator.objects))
       \* exporter.py:505: ASEBuildOptions has no attribute material_mapping
       ELSE IF operator.material_mapping # <<>>
       THEN Ends("AttributeError", <<>>, CollectionOptions(operator))
       \* exporter.py:517: the material of an empty slot is None and has no name
       ELSE IF None \in Range(CollectionOptions(operator).materials)
       THEN Ends("AttributeError", <<>>, CollectionOptions(operator))
       ELSE CallsBuild([CollectionOptions(operator) EXCEPT
                           !.materials = ManualMaterials(@, MaterialNames(operator))],
                       MeshObjectsOf(operator.objects))

\* build_ase returned: exporter.py:371-379 and 531-537
ExportWrite ==
    /\ pc = "returned"
    /\ pc' = "done"
    /\ \E outcome \in WriterOutcomes :
          /\ writes' = Append(writes, [ase |-> ase, outcome |-> outcome])
          /\ IF outcome = "written"
             THEN /\ result' = "FINISHED"
                  /\ reports' = IF operator.kind = "export"
                                THEN Append(reports, SuccessReport(ase)) ELSE reports
             ELSE IF operator.kind = "export"
             THEN /\ result' = "PermissionError"
                  /\ reports' = reports
             ELSE /\ result' = "CANCELLED"
                  /\ reports' = Append(reports, Report("ERROR", "ASCII Scene Export: ", ""))
    /\ UNCHANGED <<objects, options, mesh_objects, object_index, ase, main_geometry_object,
                   should_invert_normals, loop_triangle_index_order, exception, operator>>

\* build_ase raised: exporter.py:380-382 and 527-529
ExportFail ==
    /\ pc = "raised"
    /\ pc' = "done"
    /\ IF exception.type = "ASEBuildError"
       THEN /\ result' = OnBuildError(exception, ase).result
            /\ reports' = reports \o OnBuildError(exception, ase).reports
            /\ writes' = writes \o OnBuildError(exception, ase).writes
       ELSE /\ result' = exception.type
            /\ UNCHANGED <<reports, writes>>
    /\ UNCHANGED <<objects, options, mesh_objects, object_index, ase, main_geometry_object,
                   should_invert_normals, loop_triangle_index_order, exception, operator>>

NextExport ==
    \/ ExportInvoke \/ ExportExecute \/ CollectionExecute
    \/ BuildBegin \/ BuildStep \/ BuildFinish
    \/ ExportWrite \/ ExportFail

SpecExport == InitExport /\ [][NextExport]_vars

-----------------------------------------------------------------------------
(* exporter.py:60-151: the operators on the material mapping list of the   *)
(* collection export, run from its panel.  The list is a bpy collection    *)
(* property: remove and move leave it alone when an index is outside it.   *)

\* The longest material mapping list.
MaxMappings == 3

\* bpy_prop_collection.remove(index), 0-based
CollectionRemove(list, index) ==
    IF 0 <= index /\ index < Len(list)
    THEN SubSeq(list, 1, index) \o SubSeq(list, index + 2, Len(list))
    ELSE list

\* bpy_prop_collection.move(src, dst), 0-based
CollectionMove(list, src, dst) ==
    IF 0 <= src /\ src < Len(list) /\ 0 <= dst /\ dst < Len(list)
    THEN [i \in DOMAIN list |-> IF i = dst + 1 THEN list[src + 1]
                                ELSE IF src < dst /\ src + 1 <= i /\ i <= dst THEN list[i + 1]
                                ELSE IF dst < src /\ dst + 1 < i /\ i <= src + 1 THEN list[i - 1]
                                ELSE list[i]]
    ELSE list

InitMapping ==
    /\ operator = ExportOperator("export_collection", <<>>, "SCENE", <<TRUE, "ACTIVE", "">>,
                                 "INSTANCE", "MANUAL", <<>>)
    /\ pc = "panel"
    /\ objects = <<>>
    /\ options = ASEBuildOptions
    /\ mesh_objects = <<>>
    /\ object_index = 0
    /\ ase = ASE
    /\ main_geometry_object = 0
    /\ should_invert_normals = FALSE
    /\ loop_triangle_index_order = <<>>
    /\ exception = NoException
    /\ result = ""
    /\ reports = <<>>
    /\ writes = <<>>

OnlyOperatorChanges ==
    UNCHANGED <<objects, options, pc, mesh_objects, object_index, ase, main_geometry_object,
                should_invert_normals, loop_triangle_index_order, exception, result, reports,
                writes>>

\* ASE_OT_material_mapping_add.execute (exporter.py:70-80)
MaterialMappingAdd ==
    /\ pc = "panel"
    /\ Len(operator.material_mapping) < MaxMappings
    /\ operator' = [operator EXCEPT
                       !.material_mapping = Append(@, ASE_PG_key_value("Material", ""))]
    /\ OnlyOperatorChanges

\* ASE_OT_material_mapping_remove.poll (exporter.py:89-93)
MaterialMappingRemovePoll ==
    0 <= operator.material_mapping_index
    /\ operator.material_mapping_index < Len(operator.material_mapping)

\* ASE_OT_material_mapping_remove.execute (exporter.py:95-103)
MaterialMappingRemove ==
    /\ pc = "panel"
    /\ MaterialMappingRemovePoll
    /\ operator' = [operator EXCEPT
                       !.material_mapping = CollectionRemove(@, operator.material_mapping_index)]
    /\ OnlyOperatorChanges

\* ASE_OT_material_mapping_move_up.poll (exporter.py:112-116)
MaterialMappingMoveUpPoll == operator.material_mapping_index > 0

\* ASE_OT_material_mapping_move_up.execute (exporter.py:118-127)
MaterialMappingMoveUp ==
    /\ pc = "panel"
    /\ MaterialMappingMoveUpPoll
    /\ operator' = [operator EXCEPT
                       !.material_mapping = CollectionMove(@, operator.material_mapping_index,
                                                           operator.material_mapping_index - 1),
                       !.material_mapping_index = @ - 1]
    /\ OnlyOperatorChanges

\* ASE_OT_material_mapping_move_down.poll (exporter.py:136-140)
MaterialMappingMoveDownPoll ==
    operator.material_mapping_index < Len(operator.material_mapping) - 1

\* ASE_OT_material_mapping_move_down.execute (exporter.py:142-151)
MaterialMappingMoveDown ==
    /\ pc = "panel"
    /\ MaterialMappingMoveDownPoll
    /\ operator' = [operator EXCEPT
                       !.material_mapping = CollectionMove(@, operator.material_mapping_index,
                                                           operator.material_mapping_index + 1),
                       !.material_mapping_index = @ + 1]
    /\ OnlyOperatorChanges

\* ASE_UL_material_names.draw_item (exporter.py:208-209): the value of an entry is edited
MaterialMappingEdit ==
    /\ pc = "panel"
    /\ \E i \in DOMAIN operator.material_mapping : \E value \in {"M1", "M2"} :
          operator' = [operator EXCEPT !.material_mapping[i].value = value]
    /\ OnlyOperatorChanges

NextMapping ==
    \/ MaterialMappingAdd \/ MaterialMappingRemove
    \/ MaterialMappingMoveUp \/ MaterialMappingMoveDown
    \/ MaterialMappingEdit

SpecMapping == InitMapping /\ [][NextMapping]_vars

-----------------------------------------------------------------------------
(* The source of every part of the document, computed from the inputs      *)
(* alone: the claims below compare the built document with it.             *)

SourceObject(k) == Scene[mesh_objects[k].obj]

SourceMesh(k) == MeshData(SourceObject(k), options)

IsCollisionSource(k) == is_collision_name(SourceObject(k).name)

CollisionSources == {k \in DOMAIN mesh_objects : IsCollisionSource(k)}

MergedSources == Sorted(DOMAIN mesh_objects \ CollisionSources)

\* the source meshes that start a geometry object, in order
Creators ==
    Sorted(CollisionSources \cup (IF MergedSources = <<>> THEN {} ELSE {MergedSources[1]}))

\* the source meshes that make up the j-th geometry object, in order
SourcesOf(j) == IF IsCollisionSource(Creators[j]) THEN <<Creators[j]>> ELSE MergedSources

\* the loop triangles of the j-th geometry object: triangle t of its n-th source, mesh k
SourceTriangles(j) ==
    Concat([n \in DOMAIN SourcesOf(j) |->
              [t \in DOMAIN SourceMesh(SourcesOf(j)[n]).loop_triangles |->
                  [k |-> SourcesOf(j)[n], n |-> n, t |-> t]]])

VerticesBefore(j, n) == SumSeq([i \in 1..(n - 1) |-> Len(SourceMesh(SourcesOf(j)[i]).vertices)])

CornersBefore(j, n) == SumSeq([i \in 1..(n - 1) |-> Len(SourceMesh(SourcesOf(j)[i]).loops)])

Returned == pc = "returned"

FaceCorners(f) == <<f.a, f.b, f.c>>

-----------------------------------------------------------------------------
(* C1: after build_ase succeeds, every face (a, b, c) of every geometry    *)
(* object satisfies 0 <= a, b, c < the number of vertices of the object    *)
(* that owns the face.                                                     *)
C1_FaceVerticesInRange ==
    Returned =>
        \A j \in DOMAIN ase.geometry_objects :
            LET g == ase.geometry_objects[j]
            IN  \A i \in DOMAIN g.faces : \A p \in 1..3 :
                    /\ 0 <= FaceCorners(g.faces[i])[p]
                    /\ FaceCorners(g.faces[i])[p] < Len(g.vertices)

\* a returned document whose main object merges three meshes and has a face on the
\* last vertex, beside a collision object of its own
C1_Witness ==
    /\ Returned
    /\ \E j \in DOMAIN ase.geometry_objects :
          /\ ~ase.geometry_objects[j].is_collision
          /\ Len(SourcesOf(j)) >= 2
          /\ \E i \in DOMAIN ase.geometry_objects[j].faces :
                ase.geometry_objects[j].faces[i].a = Len(ase.geometry_objects[j].vertices) - 1
    /\ \E j \in DOMAIN ase.geometry_objects :
          ase.geometry_objects[j].is_collision /\ Len(ase.geometry_objects[j].faces) > 0

-----------------------------------------------------------------------------
(* C2: after build_ase succeeds, every face of every non-collision         *)
(* geometry object has material_index < len(document.materials), for      *)
(* every input: also a mesh without material slots (implicit slot index 0) *)
(* and an options.materials list of any length, the empty one included.    *)
C2_MaterialIndexInRange ==
    Returned =>
        \A j \in DOMAIN ase.geometry_objects :
            LET g == ase.geometry_objects[j]
            IN  ~g.is_collision =>
                    \A i \in DOMAIN g.faces : g.faces[i].material_index < Len(ase.materials)

-----------------------------------------------------------------------------
(* C3: the stored smoothing value of every face is (raw_group - 1) mod 32, *)
(* raw_group being the smoothing group of the face's polygon: it lies in   *)
(* 0..31 and differs from raw_group - 1 by a multiple of 32, so that raw   *)
(* groups congruent mod 32 (3 and 35) store the same value.                *)
RawGroup(k, t) ==
    SourceMesh(k).poly_groups[SourceMesh(k).loop_triangles[t].polygon_index + 1]

C3_SmoothingMod32 ==
    Returned =>
        \A j \in DOMAIN ase.geometry_objects :
            LET g == ase.geometry_objects[j]
                src == SourceTriangles(j)
            IN  /\ Len(g.faces) = Len(src)
                /\ \A i \in DOMAIN g.faces :
                      /\ g.faces[i].smoothing \in 0..31
                      /\ \E q \in 0..2 : RawGroup(src[i].k, src[i].t) - 1 = 32 * q + g.faces[i].smoothing

\* one object holds a face of raw group 3 and a face of raw group 35, stored alike
C3_Witness ==
    /\ Returned
    /\ \E j \in DOMAIN ase.geometry_objects :
          \E i1, i2 \in DOMAIN ase.geometry_objects[j].faces :
              /\ RawGroup(SourceTriangles(j)[i1].k, SourceTriangles(j)[i1].t) = 3
              /\ RawGroup(SourceTriangles(j)[i2].k, SourceTriangles(j)[i2].t) = 35
              /\ ase.geometry_objects[j].faces[i1].smoothing = 2
              /\ ase.geometry_objects[j].faces[i2].smoothing = 2

-----------------------------------------------------------------------------
(* C4: for each source mesh the winding is inverted exactly when (the      *)
(* number of negative scale axes of the vertex transform is odd) differs   *)
(* from options.should_invert_normals: odd and no override, or even and    *)
(* override, invert; odd and override, or even and no override, do not.    *)
(* The corner order is (2,1,0) when inverted and (0,1,2) otherwise.        *)
NegativeAxes(k) ==
    LET obj == SourceObject(k)
        m == VertexTransform(get_object_matrix(obj, mesh_objects[k].has_instance,
                                               Scene[mesh_objects[k].asset_instance]))
    IN  Cardinality({x \in 1..3 : m.scale[x] < 0})

OddParity(k) == NegativeAxes(k) \in {1, 3}

\* the mesh the last completed iteration processed
LastMesh == object_index

C4_WindingDecision ==
    (pc \in {"loop", "returned"} /\ object_index > 0) =>
        /\ OddParity(LastMesh) /\ ~options.should_invert_normals => should_invert_normals
        /\ ~OddParity(LastMesh) /\ options.should_invert_normals => should_invert_normals
        /\ OddParity(LastMesh) /\ options.should_invert_normals => ~should_invert_normals
        /\ ~OddParity(LastMesh) /\ ~options.should_invert_normals => ~should_invert_normals
        /\ loop_triangle_index_order = IF should_invert_normals THEN <<2, 1, 0>> ELSE <<0, 1, 2>>
        /\ LET g == ase.geometry_objects[IF IsCollisionSource(LastMesh)
                                         THEN Len(ase.geometry_objects)
                                         ELSE main_geometry_object]
               mesh == SourceMesh(LastMesh)
               n == Len(mesh.loop_triangles)
               base == g.vertex_offset - Len(mesh.vertices)
           IN  \A t \in 1..n : \A p \in 1..3 :
                   FaceCorners(g.faces[Len(g.faces) - n + t])[p] =
                       base + mesh.loops[mesh.loop_triangles[t].loops[loop_triangle_index_order[p] + 1] + 1].vertex_index

\* after an odd mesh (one negative axis), an even mesh (two) is inverted by the override
C4_Witness ==
    /\ pc = "loop" /\ object_index > 1
    /\ NegativeAxes(LastMesh) = 2 /\ NegativeAxes(LastMesh - 1) = 1
    /\ options.should_invert_normals
    /\ should_invert_normals
    /\ loop_triangle_index_order = <<2, 1, 0>>

-----------------------------------------------------------------------------
(* C5: for every face k of a non-collision geometry object and every       *)
(* corner position p, the same source corner is used in all channels: the  *)
(* face's vertex at p is the vertex_index of the face's p-th corner        *)
(* normal, and the texture-vertex index at p of texture face k designates  *)
(* the texture vertex (in every UV layer of the source mesh) and the       *)
(* vertex color (when the source mesh's colors were exported) of the very  *)
(* source corner whose vertex is the face's p-th vertex.                   *)

\* the loops (0-based) of source triangle src whose vertex lands on v in object j
CornerLoopsAt(j, src, v) ==
    LET mesh == SourceMesh(src.k)
        loops == mesh.loop_triangles[src.t].loops
    IN  {loops[c] : c \in {c \in 1..3 :
                              VerticesBefore(j, src.n) + mesh.loops[loops[c] + 1].vertex_index = v}}

\* the color attribute build_ase exports for source mesh k, as a set of positions
ExportedColors(k) ==
    IF ExportsColors(options)
    THEN ColorAttributeAt(SourceMesh(k),
                          ColorAttributeName(options, SourceObject(k).data.active_color_name))
    ELSE {}

C5_NormalCorners(j) ==
    LET g == ase.geometry_objects[j]
    IN  /\ Len(g.face_normals) = Len(g.faces)
        /\ \A i \in DOMAIN g.faces : \A p \in 1..3 :
              FaceCorners(g.faces[i])[p] = g.face_normals[i].vertex_normals[p].vertex_index

C5_TextureCorners(j) ==
    LET g == ase.geometry_objects[j]
        src == SourceTriangles(j)
    IN  /\ Len(g.texture_vertex_faces) = Len(g.faces)
        /\ \A i \in DOMAIN g.faces : \A p \in 1..3 :
              LET mesh == SourceMesh(src[i].k)
                  at == CornerLoopsAt(j, src[i], FaceCorners(g.faces[i])[p])
                  tv == g.texture_vertex_faces[i][p] + 1
              IN  /\ Cardinality(at) = 1
                  /\ \A l \in at : \A layer \in DOMAIN mesh.uv_layers :
                        /\ layer \in DOMAIN g.uv_layers
                        /\ tv \in DOMAIN g.uv_layers[layer].texture_vertices
                        /\ g.uv_layers[layer].texture_vertices[tv] =
                              <<mesh.uv_layers[layer].data[l + 1].uv[1],
                                mesh.uv_layers[layer].data[l + 1].uv[2], 0>>

C5_ColorCorners(j) ==
    LET g == ase.geometry_objects[j]
        src == SourceTriangles(j)
    IN  \A i \in DOMAIN g.faces : \A p \in 1..3 :
            LET mesh == SourceMesh(src[i].k)
                at == CornerLoopsAt(j, src[i], FaceCorners(g.faces[i])[p])
                tv == g.texture_vertex_faces[i][p] + 1
            IN  \A l \in at : \A c \in ExportedColors(src[i].k) :
                    /\ tv \in DOMAIN g.vertex_colors
                    /\ g.vertex_colors[tv] = SubSeq(mesh.color_attributes[c].data[l + 1].color, 1, 3)

C5_SameCornerInAllChannels ==
    Returned =>
        \A j \in DOMAIN ase.geometry_objects :
            ~ase.geometry_objects[j].is_collision =>
                /\ Len(ase.geometry_objects[j].faces) = Len(SourceTriangles(j))
                /\ C5_NormalCorners(j)
                /\ C5_TextureCorners(j)
                /\ C5_ColorCorners(j)

-----------------------------------------------------------------------------
(* C6: in the main geometry object, the faces contributed by the n-th      *)
(* merged mesh have vertex indices equal to the mesh-local vertex index    *)
(* plus the sum of the vertex counts of the meshes merged before it, and   *)
(* its texture faces have indices equal to the mesh-local corner index     *)
(* plus the sum of the corner counts of the meshes merged before it.       *)
SetOf(triple) == {triple[p] : p \in 1..3}

C6_MergeOffsets ==
    (Returned /\ main_geometry_object # 0) =>
        LET j == main_geometry_object
            g == ase.geometry_objects[j]
            src == SourceTriangles(j)
        IN  /\ Len(g.faces) = Len(src)
            /\ Len(g.texture_vertex_faces) = Len(src)
            /\ \A i \in DOMAIN src :
                  LET mesh == SourceMesh(src[i].k)
                      loops == mesh.loop_triangles[src[i].t].loops
                  IN  /\ SetOf(FaceCorners(g.faces[i])) =
                            {VerticesBefore(j, src[i].n) + mesh.loops[loops[c] + 1].vertex_index : c \in 1..3}
                      /\ SetOf(g.texture_vertex_faces[i]) =
                            {CornersBefore(j, src[i].n) + loops[c] : c \in 1..3}

\* three meshes merged around a collision mesh or not: the last one's offsets are sums
C6_Witness ==
    /\ Returned /\ main_geometry_object # 0
    /\ Len(SourcesOf(main_geometry_object)) = 3
    /\ VerticesBefore(main_geometry_object, 3) # CornersBefore(main_geometry_object, 3)
    /\ VerticesBefore(main_geometry_object, 2) > 0

-----------------------------------------------------------------------------
(* C7: in any interleaving of collision-named and other meshes, each       *)
(* collision-named mesh produces its own geometry object with that mesh's  *)
(* name and only that mesh's vertices and faces, and all other meshes are  *)
(* merged into one main geometry object, created at and named after the    *)
(* first of them; the document holds (number of collision meshes) + (1 if  *)
(* any non-collision mesh exists) geometry objects.                        *)
SourceVertices(k) ==
    LET obj == SourceObject(k)
    IN  TransformedVertices(
            VertexTransform(get_object_matrix(obj, mesh_objects[k].has_instance,
                                              Scene[mesh_objects[k].asset_instance])),
            SourceMesh(k))

C7_ObjectPerCollisionMesh ==
    Returned =>
        /\ Len(ase.geometry_objects) =
              Cardinality(CollisionSources) + (IF MergedSources = <<>> THEN 0 ELSE 1)
        /\ \A j \in DOMAIN ase.geometry_objects :
              LET g == ase.geometry_objects[j]
              IN  /\ g.name = SourceObject(Creators[j]).name
                  /\ g.is_collision = IsCollisionSource(Creators[j])
                  /\ g.vertices = Concat([n \in DOMAIN SourcesOf(j) |-> SourceVertices(SourcesOf(j)[n])])
                  /\ Len(g.faces) = Len(SourceTriangles(j))
        /\ MergedSources # <<>> =>
              /\ main_geometry_object \in DOMAIN ase.geometry_objects
              /\ Creators[main_geometry_object] = MergedSources[1]
        /\ \A j1, j2 \in DOMAIN ase.geometry_objects :
              (~ase.geometry_objects[j1].is_collision /\ ~ase.geometry_objects[j2].is_collision)
                  => j1 = j2

\* a collision mesh between two merged meshes, and a second collision mesh
C7_Witness ==
    /\ Returned
    /\ Len(mesh_objects) = 3
    /\ ~IsCollisionSource(1) /\ IsCollisionSource(2) /\ ~IsCollisionSource(3)
    /\ Len(ase.geometry_objects) = 2
    /\ ase.geometry_objects[1].name = SourceObject(1).name
    /\ ase.geometry_objects[2].name = SourceObject(2).name

-----------------------------------------------------------------------------
(* C8: build_ase returns a document only if it holds at least one          *)
(* non-collision geometry object; with no eligible source mesh it fails    *)
(* with 'At least one mesh object must be selected', and when every source *)
(* mesh is a (manifold, convex) collision mesh it fails with 'At least one *)
(* non-collision mesh must be exported'.                                   *)
Ended == pc \in {"returned", "raised"}

OnlyValidCollisionSources ==
    /\ mesh_objects # <<>>
    /\ \A k \in DOMAIN mesh_objects : IsCollisionSource(k) /\ BadEdges(SourceMesh(k)) = {}

C8_ReturnsOnlyWithMain ==
    Returned => \E j \in DOMAIN ase.geometry_objects : ~ase.geometry_objects[j].is_collision

C8_SelectionError ==
    (Ended /\ mesh_objects = <<>>) =>
        /\ pc = "raised"
        /\ exception = ASEBuildError("At least one mesh object must be selected", "")

C8_TopologyError ==
    (Ended /\ OnlyValidCollisionSources) =>
        /\ pc = "raised"
        /\ exception = ASEBuildError("At least one non-collision mesh must be exported", "")

C8_DocumentNeedsMain == C8_ReturnsOnlyWithMain /\ C8_SelectionError /\ C8_TopologyError

-----------------------------------------------------------------------------
(* C9: if the input holds a collision-named mesh with a non-manifold or a  *)
(* non-convex edge, build_ase never returns a document, and never gets     *)
(* past that mesh; when no earlier mesh makes the build fail, the failure  *)
(* is an ASEBuildError that names that collision mesh.                     *)
BadCollisionSources ==
    {k \in DOMAIN mesh_objects : IsCollisionSource(k) /\ BadEdges(SourceMesh(k)) # {}}

C9_InvalidCollisionFails ==
    BadCollisionSources # {} =>
        /\ pc # "returned"
        /\ object_index < Min(BadCollisionSources)
        /\ (pc = "raised" /\ object_index + 1 = Min(BadCollisionSources)) =>
              /\ exception.type = "ASEBuildError"
              /\ exception.name = SourceObject(object_index + 1).name
              /\ exception.message =
                    (IF \E e \in DOMAIN SourceMesh(object_index + 1).edges :
                           /\ ~SourceMesh(object_index + 1).edges[e].is_manifold
                           /\ \A d \in 1..(e - 1) : SourceMesh(object_index + 1).edges[d].is_convex
                     THEN "is not manifold" ELSE "is not convex")

\* the build fails at a non-convex collision mesh after two meshes were built
C9_Witness ==
    /\ pc = "raised"
    /\ object_index = 2
    /\ BadCollisionSources = {3}
    /\ exception = ASEBuildError("is not convex", "MCDCX_dent")
    /\ Len(ase.geometry_objects) = 3

-----------------------------------------------------------------------------
(* C10: the material data of a collision mesh is ignored: a manifold,      *)
(* convex collision-named mesh never makes the build fail with a material  *)
(* error, whatever its slots hold and whatever slot index its faces carry. *)
MaterialErrors ==
    {"material slot cannot be empty", "material index is out of bounds", "is not in list"}

C10_CollisionMaterialsIgnored ==
    (/\ pc = "raised"
     /\ object_index < Len(mesh_objects)
     /\ IsCollisionSource(object_index + 1)
     /\ BadEdges(SourceMesh(object_index + 1)) = {})
        => exception.message \notin MaterialErrors

-----------------------------------------------------------------------------
(* The mesh whose pass of the loop raised.                                 *)
RaisedInLoop == pc = "raised" /\ object_index < Len(mesh_objects)

RaisingMesh == object_index + 1

\* the number of slots builder.py:105-114 resolves for source mesh k
ResolvedSlots(k) ==
    IF IsCollisionSource(k) \/ Len(SourceObject(k).data.materials) = 0
    THEN 1 ELSE Len(SourceObject(k).data.materials)

OutOfRangeIndices(k) ==
    {SourceMesh(k).loop_triangles[t].material_index : t \in DOMAIN SourceMesh(k).loop_triangles}
        \ (0..(ResolvedSlots(k) - 1))

-----------------------------------------------------------------------------
(* C11: when the first slot of a non-collision mesh that does not resolve  *)
(* holds a material that is not in options.materials, build_ase fails with *)
(* an ASEBuildError that is not the 'cannot be empty' error.               *)
UnlistedSlots(k) ==
    {i \in DOMAIN SourceObject(k).data.materials :
        SourceObject(k).data.materials[i] \notin {options.materials[m] : m \in DOMAIN options.materials}}

C11_UnlistedMaterialIsBuildError ==
    (/\ RaisedInLoop
     /\ ~IsCollisionSource(RaisingMesh)
     /\ UnlistedSlots(RaisingMesh) # {}
     /\ SourceObject(RaisingMesh).data.materials[Min(UnlistedSlots(RaisingMesh))] # None)
        => /\ exception.type = "ASEBuildError"
           /\ exception.message # "material slot cannot be empty"

-----------------------------------------------------------------------------
(* C12 as claimed: when a face of a mesh carries a material index outside  *)
(* the mesh's resolved slots, the error names the mesh and the index set   *)
(* it reports is exactly the set of the out-of-range face indices.         *)
C12_ReportsOutOfRangeIndicesOnly ==
    (RaisedInLoop /\ exception.message = "material index is out of bounds") =>
        /\ exception.name = SourceObject(RaisingMesh).name
        /\ {exception.indices[i] : i \in DOMAIN exception.indices} = OutOfRangeIndices(RaisingMesh)

(* C12 as amended: a mesh that gets to the check with a face material      *)
(* index outside its resolved slots makes build_ase fail with an error     *)
(* that names the mesh and one of the out-of-range indices, and reports    *)
(* the sorted list of all the material indices its faces carry, the        *)
(* in-range ones included; a build that returns met no such mesh.          *)
C12_ReportsAllFaceIndices ==
    /\ (RaisedInLoop /\ exception.message = "material index is out of bounds") =>
          /\ exception.type = "ASEBuildError"
          /\ exception.name = SourceObject(RaisingMesh).name
          /\ exception.index \in OutOfRangeIndices(RaisingMesh)
          /\ {exception.indices[i] : i \in DOMAIN exception.indices} =
                {SourceMesh(RaisingMesh).loop_triangles[t].material_index :
                    t \in DOMAIN SourceMesh(RaisingMesh).loop_triangles}
          /\ \A i \in 1..(Len(exception.indices) - 1) :
                exception.indices[i] < exception.indices[i + 1]
    /\ \A k \in 1..object_index : OutOfRangeIndices(k) = {}

\* the faces of 'stray' carry the indices 0 and 2 on one slot: 2 is named, 0 and 2 are listed
C12_Witness ==
    /\ RaisedInLoop
    /\ exception.message = "material index is out of bounds"
    /\ exception.name = "stray"
    /\ exception.index = 2
    /\ exception.indices = <<0, 2>>
    /\ object_index = 1

-----------------------------------------------------------------------------
(* C13: for a non-collision mesh the per-corner RGB triples are appended   *)
(* to vertex_colors exactly when should_export_vertex_colors is set and    *)
(* the selected channel (the active one in ACTIVE mode, the named one in   *)
(* EXPLICIT mode) resolves on that mesh; a mesh on which it does not       *)
(* resolve contributes no colors.  For both export operators.              *)
SelectedChannel(k) ==
    IF options.vertex_color_mode = "ACTIVE"
    THEN SourceObject(k).data.active_color_name
    ELSE options.vertex_color_attribute

ResolvedChannels(k) ==
    {c \in DOMAIN SourceMesh(k).color_attributes :
        SourceMesh(k).color_attributes[c].name = SelectedChannel(k)}

RequestedColors(k) ==
    IF options.should_export_vertex_colors /\ ResolvedChannels(k) # {}
    THEN [l \in DOMAIN SourceMesh(k).color_attributes[Min(ResolvedChannels(k))].data |->
             SubSeq(SourceMesh(k).color_attributes[Min(ResolvedChannels(k))].data[l].color, 1, 3)]
    ELSE <<>>

C13_ColorsWhenRequestedAndResolved ==
    (pc = "returned" /\ operator.kind \in {"export", "export_collection"}) =>
        ase.geometry_objects[main_geometry_object].vertex_colors =
            Concat([n \in DOMAIN MergedSources |-> RequestedColors(MergedSources[n])])

-----------------------------------------------------------------------------
(* C14: in both export operators the Writer is invoked at most once, and   *)
(* only with the document build_ase returned; when build_ase fails with    *)
(* ASEBuildError the operator reports the error, returns CANCELLED and     *)
(* never invokes the Writer.                                               *)
C14_WriterOnlyAfterBuild ==
    /\ Len(writes) <= 1
    /\ writes # <<>> =>
          /\ pc = "done"
          /\ exception = NoException
          /\ object_index = Len(mesh_objects)
          /\ main_geometry_object # 0
          /\ writes[1].ase = ase
    /\ (pc = "done" /\ exception.type = "ASEBuildError") =>
          /\ result = "CANCELLED"
          /\ writes = <<>>
          /\ reports = <<Report("ERROR", exception.message, exception.name)>>

\* the second mesh of a collection fails the build: reported, cancelled, nothing written
C14_Witness ==
    /\ pc = "done"
    /\ operator.kind = "export_collection"
    /\ exception.type = "ASEBuildError"
    /\ object_index = 1
    /\ Len(ase.geometry_objects) >= 1
    /\ result = "CANCELLED"
    /\ writes = <<>>

-----------------------------------------------------------------------------
(* C15: the same mesh built with even and with odd scale parity, override  *)
(* off.  The built document holds one of the two; the other is the pass of *)
(* the loop over the same mesh with the x axis of its matrix mirrored.     *)
OneMeshBuilt ==
    /\ Returned
    /\ operator = NoOperator
    /\ Len(mesh_objects) = 1
    /\ ~options.should_invert_normals

Mirrored(matrix) == [matrix EXCEPT !.scale[1] = 0 - @]

MirroredBuild ==
    BeginVisit([ASE EXCEPT !.materials = options.materials], 0, FALSE, <<>>, SourceObject(1),
               Mirrored(get_object_matrix(SourceObject(1), mesh_objects[1].has_instance,
                                          Scene[mesh_objects[1].asset_instance])),
               options)

\* the document of even parity and the one of odd parity
EvenBuild ==
    IF should_invert_normals THEN MirroredBuild.geometry_objects[1] ELSE ase.geometry_objects[1]

OddBuild ==
    IF should_invert_normals THEN ase.geometry_objects[1] ELSE MirroredBuild.geometry_objects[1]

SameFacesBesideCorners ==
    /\ MirroredBuild.raises = {}
    /\ MirroredBuild.should_invert_normals # should_invert_normals
    /\ Len(OddBuild.faces) = Len(EvenBuild.faces)
    /\ Len(OddBuild.face_normals) = Len(EvenBuild.face_normals)
    /\ \A i \in DOMAIN EvenBuild.faces :
          /\ OddBuild.faces[i].material_index = EvenBuild.faces[i].material_index
          /\ OddBuild.faces[i].smoothing = EvenBuild.faces[i].smoothing

(* C15 as claimed: corresponding faces have b and c transposed and a       *)
(* unchanged, and the per-corner normals negated; face count, material     *)
(* indices and smoothing values are identical.                             *)
C15_MirrorTransposesBAndC ==
    OneMeshBuilt =>
        /\ SameFacesBesideCorners
        /\ \A i \in DOMAIN EvenBuild.faces :
              /\ OddBuild.faces[i].a = EvenBuild.faces[i].a
              /\ OddBuild.faces[i].b = EvenBuild.faces[i].c
              /\ OddBuild.faces[i].c = EvenBuild.faces[i].b
        /\ \A i \in DOMAIN EvenBuild.face_normals :
              /\ OddBuild.face_normals[i].vertex_normals[1].normal =
                    Negated(EvenBuild.face_normals[i].vertex_normals[1].normal)
              /\ OddBuild.face_normals[i].vertex_normals[2].normal =
                    Negated(EvenBuild.face_normals[i].vertex_normals[3].normal)
              /\ OddBuild.face_normals[i].vertex_normals[3].normal =
                    Negated(EvenBuild.face_normals[i].vertex_normals[2].normal)

(* C15 as amended: corresponding faces have a and c transposed and b       *)
(* unchanged (the corner order is reversed), and the normal of every       *)
(* corner is negated and listed in the reversed order too; face count,     *)
(* material indices and smoothing values are identical.                    *)
C15_MirrorReversesCorners ==
    OneMeshBuilt =>
        /\ SameFacesBesideCorners
        /\ \A i \in DOMAIN EvenBuild.faces :
              /\ OddBuild.faces[i].a = EvenBuild.faces[i].c
              /\ OddBuild.faces[i].b = EvenBuild.faces[i].b
              /\ OddBuild.faces[i].c = EvenBuild.faces[i].a
        /\ \A i \in DOMAIN EvenBuild.face_normals : \A p \in 1..3 :
              /\ OddBuild.face_normals[i].vertex_normals[p].normal =
                    Negated(EvenBuild.face_normals[i].vertex_normals[4 - p].normal)
              /\ OddBuild.face_normals[i].vertex_normals[p].vertex_index =
                    EvenBuild.face_normals[i].vertex_normals[4 - p].vertex_index

\* the mirrored mesh 'wheel' was built (odd parity): two faces with three distinct corners
C15_Witness ==
    /\ OneMeshBuilt
    /\ should_invert_normals
    /\ Len(ase.geometry_objects[1].faces) = 2
    /\ Len(ase.geometry_objects[1].face_normals) = 2
    /\ ase.geometry_objects[1].faces[1].a # ase.geometry_objects[1].faces[1].c
    /\ ase.geometry_objects[1].faces[1].a # ase.geometry_objects[1].faces[1].b

-----------------------------------------------------------------------------
(* C16: after a successful build, in every non-collision geometry object   *)
(* and for every one of its UV layers, every index of every texture face   *)
(* is smaller than the number of texture vertices of that layer, whatever  *)
(* the numbers of UV layers of the merged meshes.                          *)
C16_TextureFacesInRange ==
    Returned =>
        \A j \in DOMAIN ase.geometry_objects :
            ~ase.geometry_objects[j].is_collision =>
                \A u \in DOMAIN ase.geometry_objects[j].uv_layers :
                    \A i \in DOMAIN ase.geometry_objects[j].texture_vertex_faces : \A p \in 1..3 :
                        ase.geometry_objects[j].texture_vertex_faces[i][p] <
                            Len(ase.geometry_objects[j].uv_layers[u].texture_vertices)

-----------------------------------------------------------------------------
(* C17: after a successful build the vertex_colors of the main geometry    *)
(* object is empty or holds exactly one RGB triple per corner of all the   *)
(* meshes merged into it, in the order of the corners, also when only some *)
(* of the merged meshes carry the selected color channel.                  *)
C17_ColorPerCorner ==
    Returned =>
        LET g == ase.geometry_objects[main_geometry_object]
        IN  \/ g.vertex_colors = <<>>
            \/ /\ Len(g.vertex_colors) = CornersBefore(main_geometry_object, Len(MergedSources) + 1)
               /\ \A n \in DOMAIN MergedSources :
                     \A l \in DOMAIN SourceMesh(MergedSources[n]).loops :
                        g.vertex_colors[CornersBefore(main_geometry_object, n) + l] =
                            RequestedColors(MergedSources[n])[l]

-----------------------------------------------------------------------------
(* C18: in the collection export, execute reaches build_ase with           *)
(* options.materials being the unique used materials in first-encounter    *)
(* order (AUTOMATIC), or (MANUAL, for any mapping list, a non-empty one    *)
(* included) the materials named in the mapping list first, in the order   *)
(* of the list, followed by the others in first-encounter order.  Checked  *)
(* for collections without empty slots and with the SCENE transform source.*)
UsedSlots ==
    Concat([k \in DOMAIN MeshObjectsOf(operator.objects) |->
              Scene[MeshObjectsOf(operator.objects)[k]].evaluated.materials])

FirstEncounters ==
    SelectSeq([i \in DOMAIN UsedSlots |-> IF \E j \in 1..(i - 1) : UsedSlots[j] = UsedSlots[i]
                                          THEN None ELSE UsedSlots[i]],
              LAMBDA material : material # None)

MappingKeys == [i \in DOMAIN operator.material_mapping |-> operator.material_mapping[i].key]

MappedFirst ==
    SelectSeq(MappingKeys, LAMBDA key : key \in Range(FirstEncounters))
    \o SelectSeq(FirstEncounters, LAMBDA material : material \notin Range(MappingKeys))

C18_MaterialOrderReachesBuild ==
    (/\ operator.kind = "export_collection"
     /\ operator.transform_source = "SCENE"
     /\ None \notin Range(UsedSlots)
     /\ pc # "execute")
        => /\ result # "AttributeError"
           /\ options.materials =
                 IF operator.material_mode = "MANUAL" THEN MappedFirst ELSE FirstEncounters

-----------------------------------------------------------------------------
(* C19: options.transform is pre-multiplied into the transform applied to  *)
(* every exported vertex: the positions built with transform T are T       *)
(* applied to the positions built with the identity; so the INSTANCE       *)
(* export space shifts every vertex by minus the instance offset.          *)
\* the position of vertex i of source mesh k under the identity transform
PositionWithIdentity(k, i) ==
    MatApply(RotationPiZ,
             MatApply(get_object_matrix(SourceObject(k), mesh_objects[k].has_instance,
                                        Scene[mesh_objects[k].asset_instance]),
                      SourceMesh(k).vertices[i]))

C19_TransformPremultiplied ==
    pc = "returned" =>
        \A j \in DOMAIN ase.geometry_objects : \A n \in DOMAIN SourcesOf(j) :
            \A i \in DOMAIN SourceMesh(SourcesOf(j)[n]).vertices :
                ase.geometry_objects[j].vertices[VerticesBefore(j, n) + i] =
                    MatApply(options.transform, PositionWithIdentity(SourcesOf(j)[n], i))

-----------------------------------------------------------------------------
(* C20: from an empty material mapping list with index 0, after any        *)
(* sequence of add, remove, move_up and move_down (each run only when its  *)
(* poll holds), material_mapping_index designates an entry whenever the    *)
(* list is non-empty, and move_up and move_down can run only with both the *)
(* source and the target position inside the list.                        *)
InsideMapping(index) == 0 <= index /\ index < Len(operator.material_mapping)

C20_MappingIndexInsideList ==
    pc = "panel" =>
        /\ operator.material_mapping # <<>> => InsideMapping(operator.material_mapping_index)
        /\ MaterialMappingMoveUpPoll =>
              /\ InsideMapping(operator.material_mapping_index)
              /\ InsideMapping(operator.material_mapping_index - 1)
        /\ MaterialMappingMoveDownPoll =>
              /\ InsideMapping(operator.material_mapping_index)
              /\ InsideMapping(operator.material_mapping_index + 1)

-----------------------------------------------------------------------------
(* C21: for every identifier of transform_source_items (SCENE and CUSTOM), *)
(* execute of either export operator resolves a transform source and goes  *)
(* on to call build_ase: once execute has run, build_ase was called, and   *)
(* execute was not left by an unbound transform_source.  (The MANUAL       *)
(* material mode, which fails on its own account, is set aside.)           *)
ExecuteRan ==
    /\ operator.kind \in {"export", "export_collection"}
    /\ pc \in {"start", "loop", "returned", "raised", "done"}
    /\ ~(operator.kind = "export" /\ Len(MeshObjectsOf(operator.objects)) = 0)

BuildCalled ==
    \/ pc \in {"start", "loop", "returned", "raised"}
    \/ exception # NoException
    \/ writes # <<>>

C21_EveryTransformSourceReachesBuild ==
    (/\ ExecuteRan
     /\ operator.transform_source \in transform_source_items
     /\ operator.material_mode = "AUTOMATIC")
        => BuildCalled /\ result # "UnboundLocalError"

====
